---- MODULE Spec2Model ----
(***************************************************************************)
(* A model of voiceid.py (trunk/scripts/voiceid.py): the identify run of   *)
(* extract_speakers (scoring scheduler, join, aggregation, resolution,     *)
(* interactive review, enrollment tasks, final join), the pure functions   *)
(* of class Cluster, the segmentation file functions (extract_clusters,    *)
(* generate_seg_file, ident_seg), interactive_training, and the speaker    *)
(* model creation mode of __main__ (build_gmm).                            *)
(*                                                                         *)
(* Scores are floats in the source; the model keeps them as integers in    *)
(* hundredths (-20.05 is -2005), so the cutoff .1 is 10 and the floor      *)
(* -33.0 is -3300, and its arithmetic is exact where the source's is       *)
(* binary floating point.  File names are strings, built with the same     *)
(* concatenations as the source.                                           *)
(***************************************************************************)
EXTENDS Integers, Sequences, FiniteSets, TLC

VARIABLES
    cpus,                     \* cpu_count()
    interactive,              \* extract_speakers' argument (option -u)
    options,                  \* the parsed command line (optparse)
    keep_intermediate_files,  \* the module-level flag of line 17
    clusters,                 \* clusters[c]: the Cluster objects of the run
    db,                       \* db[g]: the files of db_dir/g, name -> content
    files_in_db,              \* files_in_db[g]: the listing taken before scoring
    pc,                       \* position of extract_speakers
    k,                        \* index of the loop over (cluster, f) / clusters
    p,                        \* p[f+cluster]: the scoring Process objects
    jobs,                     \* the scoring child processes, by (cluster, f)
    disk,                     \* <showname>.ident.<gender>.<f>.seg files
    speakers,                 \* speakers[c] of extract_speakers
    proc,                     \* proc[c] of extract_speakers
    tasks,                    \* the enrollment child processes, by cluster
    cwd,                      \* working files of enrollment, name -> content
    basename_gmm,             \* basename_gmm of extract_speakers
    relabeled,                \* <basename>.ident.srt written by srt2subnames
    rs,                       \* a Cluster object for the functions taken alone
    sg,                       \* a segmentation file being parsed and rewritten
    it,                       \* a call of interactive_training
    bg                        \* a run in speaker model creation mode

vars == <<cpus, interactive, options, keep_intermediate_files, clusters, db,
          files_in_db, pc, k, p, jobs, disk, speakers, proc, tasks, cwd, basename_gmm,
          relabeled, rs, sg, it, bg>>

runvars == <<cpus, interactive, options, keep_intermediate_files, clusters, db,
             files_in_db, pc, k, p, jobs, disk, speakers, proc, tasks, cwd,
             basename_gmm, relabeled>>

\* The options of the run, and the state of the review and enrollment stage.
config == <<cpus, interactive, options, keep_intermediate_files>>

\* The state of the parts of the program that are followed on their own.
alone == <<rs, sg, it, bg>>
enrolment == <<speakers, proc, tasks, cwd, basename_gmm, relabeled>>

---------------------------------------------------------------------------
(* Bounds of the model *)

MaxCpus == 2

---------------------------------------------------------------------------
(* Helpers *)

Abs(x) == IF x < 0 THEN -x ELSE x

\* The empty dict / an absent file table.
Empty == [x \in {} |-> 0]

\* d[key] = val, as a dict assignment (inserts or replaces).
Put(d, key, val) == [x \in DOMAIN d \cup {key} |-> IF x = key THEN val ELSE d[x]]

\* del d[key] / os.remove of a file of a table.
Del(d, key) == [x \in DOMAIN d \ {key} |-> d[x]]

\* A list of the elements of a set, in one fixed order (os.listdir, dict order).
RECURSIVE ListOf(_)
ListOf(S) == IF S = {} THEN <<>>
             ELSE LET x == CHOOSE y \in S : TRUE IN <<x>> \o ListOf(S \ {x})

\* str.endswith
EndsWith(s, suffix) ==
    /\ Len(s) >= Len(suffix)
    /\ SubSeq(s, Len(s) - Len(suffix) + 1, Len(s)) = suffix

Max(S) == CHOOSE x \in S : \A y \in S : y <= x

---------------------------------------------------------------------------
(* class Cluster *)

None == "None"

\* Cluster.__init__: the fields this model follows.
Cluster(name, gender) ==
    [name |-> name, gender |-> gender, speaker |-> None, speakers |-> Empty,
     wave |-> None]

\* add_speaker without its comparison: the last value wins.
add_speaker_last_wins(spk, name, value) == Put(spk, name, value)

\* Cluster.add_speaker on the dict self.speakers; value is float(value).
add_speaker(spk, name, value) ==
    IF name \notin DOMAIN spk
    THEN Put(spk, name, value)
    ELSE IF spk[name] < value THEN Put(spk, name, value) ELSE spk

\* self.speakers.values() followed by values.sort(reverse=True).
RECURSIVE SortedValues(_)
SortedValues(spk) ==
    IF DOMAIN spk = {} THEN <<>>
    ELSE LET top == CHOOSE s \in DOMAIN spk : \A t \in DOMAIN spk : spk[t] <= spk[s]
         IN  <<spk[top]>> \o SortedValues(Del(spk, top))

\* Cluster.get_distance: [err, val]; values[1] raises IndexError on a short list.
get_distance(spk) ==
    LET values == SortedValues(spk)
    IN  IF Len(values) < 2
        THEN [err |-> "IndexError", val |-> 0]
        ELSE [err |-> "none", val |-> Abs(values[2]) - Abs(values[1])]

\* max_val = -33.0 and the cutoff .1 of get_best_speaker, in hundredths.
max_val == -3300
DistanceCutoff == 10

\* The test of line 61 against 0 instead of .1.
TooCloseBelowZero(distance) == distance < 0

\* Line 61: "if self.get_distance() < .1".
TooClose(distance) == distance < DistanceCutoff

\* The for loop without the test of line 56 around it.
BestMatchNoFloor(spk, value) == CHOOSE s \in DOMAIN spk : spk[s] = value

\* The speaker found by the for loop of get_best_speaker.
BestMatch(spk, value) ==
    IF value > max_val
    THEN CHOOSE s \in DOMAIN spk : spk[s] = value
    ELSE "unknown"

\* Cluster.get_best_speaker on the object self: [err, self, ret].  max() of an
\* empty list raises ValueError before any field is assigned; get_distance's
\* IndexError leaves self.speaker assigned (self.value is not followed).
get_best_speaker(self) ==
    IF DOMAIN self.speakers = {}
    THEN [err |-> "ValueError", self |-> self, ret |-> None]
    ELSE LET value == Max({self.speakers[s] : s \in DOMAIN self.speakers})
             found == BestMatch(self.speakers, value)
             dist  == get_distance(self.speakers)
             s1    == [self EXCEPT !.speaker = found]
         IN  IF dist.err # "none"
             THEN [err |-> dist.err, self |-> s1, ret |-> None]
             ELSE IF TooClose(dist.val)
                  THEN [err |-> "none", self |-> [s1 EXCEPT !.speaker = "unknown"],
                        ret |-> "unknown"]
                  ELSE [err |-> "none", self |-> s1, ret |-> found]

---------------------------------------------------------------------------
(* The identify run: inputs *)

\* The partitions of the database: db_dir/M, db_dir/F, db_dir/U.
Genders == {"M", "F", "U"}

\* The cluster ids of the segmentation file of the run.
ClusterIds == {"S0", "S1"}

\* The scores the external scorer may report, in hundredths.
Scores == {-2500, -2000}

\* os.path.splitext(file_input)[0]
basename == "rec"

\* A model artifact: who wrote it ("old": before the run) and the speaker
\* label it was trained with.
Artifact(by, spk) == [by |-> by, spk |-> spk]

\* The database at the start of the run: two models in M, one in F, none in
\* U (whose only file is no .gmm).
InitialDb ==
    [g \in Genders |->
        CASE g = "M" -> Put(Put(Empty, "alice.gmm", Artifact("old", "alice")),
                            "bob.gmm", Artifact("old", "bob"))
          [] g = "F" -> Put(Empty, "carol.gmm", Artifact("old", "carol"))
          [] OTHER   -> Put(Empty, "notes.txt", Artifact("old", "notes"))]

\* showname = os.path.join(basename, cluster)
Showname(c) == basename \o "/" \o c

\* The file mfcc_vs_gmm has the scorer write (--sOutputMask) and checks.
ScorerOutput(showname, gmm, gender) ==
    showname \o ".ident." \o gender \o "." \o gmm \o ".seg"

\* The file manage_ident(showname, gmm, clusters) opens.
IdentFile(showname, gmm) == showname \o ".ident." \o gmm \o ".seg"

\* One header line of a scorer output: ";; cluster:<cluster>_<speaker> ... score".
ScoreLine(c, spk, value) == [cluster |-> c, speaker |-> spk, value |-> value]

---------------------------------------------------------------------------
(* The identify run: the scoring phase *)

\* The order of "for cluster in clusters".
ClusterOrder == ListOf(DOMAIN clusters)

\* The pairs of every cluster with the listing of one partition, M.
RECURSIVE PairsFromM(_)
PairsFromM(order) ==
    IF order = <<>> THEN <<>>
    ELSE LET c     == Head(order)
             files == files_in_db["M"]
         IN  [i \in 1..Len(files) |-> <<c, files[i]>>] \o PairsFromM(Tail(order))

\* The (cluster, f) pairs in the order of the nested loops over clusters and
\* files_in_db[clusters[cluster].gender].
RECURSIVE PairsFrom(_)
PairsFrom(order) ==
    IF order = <<>> THEN <<>>
    ELSE LET c     == Head(order)
             files == files_in_db[clusters[c].gender]
         IN  [i \in 1..Len(files) |-> <<c, files[i]>>] \o PairsFrom(Tail(order))

Pairs == PairsFrom(ClusterOrder)

\* len(active_children()): the live child processes of the run.
ActiveChildren ==
    Cardinality({j \in DOMAIN jobs : jobs[j].alive})
    + Cardinality({c \in DOMAIN tasks : tasks[c].alive})

\* The key without the cluster: two clusters of one partition share it.
ProcessKeyByFile(f, cluster) == f

\* The key of the dict p.
ProcessKey(f, cluster) == f \o cluster

\* The test against one less than cpus: a single cpu admits no job.
UnderBoundBelowCpus == ActiveChildren < cpus - 1

\* The test written with <=: one job more than cpus is admitted.
UnderBoundOffByOne == ActiveChildren <= cpus

\* The test of "if len(active_children()) < cpus" and of the while loop.
UnderBound == ActiveChildren < cpus

\* Lines 412-416: p = {} and the listing of the three partitions.
ListDb ==
    /\ pc = "listdb"
    /\ files_in_db' = [g \in Genders |->
                         ListOf({f \in DOMAIN db[g] : EndsWith(f, ".gmm")})]
    /\ p' = Empty
    /\ k' = 1
    /\ pc' = "sched"
    /\ UNCHANGED <<config, clusters, db, jobs, disk, enrolment, alone>>

\* Line 422: the test, with a pair left to schedule; line 430 when none is.
CheckBound ==
    /\ pc = "sched"
    /\ IF k > Len(Pairs) THEN pc' = "join"
       ELSE IF UnderBound THEN pc' = "start" ELSE pc' = "wait"
    /\ UNCHANGED <<config, clusters, db, files_in_db, k, p, jobs, disk, enrolment, alone>>

\* Lines 426-427: the polling loop ends once the count is under the bound.
PollBound ==
    /\ pc = "wait"
    /\ UnderBound
    /\ pc' = "start"
    /\ UNCHANGED <<config, clusters, db, files_in_db, k, p, jobs, disk, enrolment, alone>>

\* Lines 423-424 and 428-429: p[f+cluster] = Process(...); p[f+cluster].start()
StartJob ==
    /\ pc = "start"
    /\ LET c == Pairs[k][1]
           f == Pairs[k][2]
       IN  /\ p' = Put(p, ProcessKey(f, c), <<c, f>>)
           /\ jobs' = Put(jobs, <<c, f>>, [alive |-> TRUE, retval |-> "none"])
    /\ k' = k + 1
    /\ pc' = "sched"
    /\ UNCHANGED <<config, clusters, db, files_in_db, disk, enrolment, alone>>

\* The child process of one job, mfcc_vs_gmm: the external scorer ends with
\* retval, having written its output file or not; start_subprocess raises on a
\* non-zero retval and ensure_file_exists on a missing file, either of which
\* ends the child alone.
JobExit(j) ==
    /\ j \in DOMAIN jobs
    /\ jobs[j].alive
    /\ \E retval \in {"zero", "nonzero"}, wrote \in BOOLEAN, value \in Scores :
         LET c == j[1]
             f == j[2]
             g == clusters[c].gender
             out == ScorerOutput(Showname(c), f, g)
         IN  /\ jobs' = [jobs EXCEPT ![j] = [alive |-> FALSE, retval |-> retval]]
             /\ disk' = IF wrote
                        THEN Put(disk, out, ScoreLine(c, db[g][f].spk, value))
                        ELSE disk
    /\ UNCHANGED <<config, clusters, db, files_in_db, pc, k, p, enrolment, alone>>

\* Lines 430-432: join every process of p that is alive.
JoinJobs ==
    /\ pc = "join"
    /\ \A key \in DOMAIN p : ~jobs[p[key]].alive
    /\ pc' = "ident"
    /\ k' = 1
    /\ UNCHANGED <<config, clusters, db, files_in_db, p, jobs, disk, enrolment, alone>>

\* manage_ident for the pair at hand (lines 434-438, 326-345): open() raises
\* IOError on a missing file, which ends the run (pc names the exception);
\* the file is removed unless kept.
ManageIdent ==
    /\ pc = "ident"
    /\ IF k > Len(Pairs)
       THEN /\ pc' = "resolve"
            /\ k' = 1
            /\ speakers' = Empty
            /\ UNCHANGED <<clusters, disk>>
       ELSE LET c == Pairs[k][1]
                f == Pairs[k][2]
                file == IdentFile(Showname(c), clusters[c].gender \o "." \o f)
            IN  IF file \notin DOMAIN disk
                THEN /\ pc' = "IOError"
                     /\ UNCHANGED <<k, clusters, disk, speakers>>
                ELSE LET l == disk[file]
                     IN  /\ clusters' = [clusters EXCEPT ![l.cluster].speakers =
                                           add_speaker(@, l.speaker, l.value)]
                         /\ disk' = IF keep_intermediate_files THEN disk
                                    ELSE Del(disk, file)
                         /\ k' = k + 1
                         /\ UNCHANGED <<pc, speakers>>
    /\ UNCHANGED <<config, db, files_in_db, p, jobs, proc, tasks, cwd, basename_gmm,
                   relabeled, alone>>

---------------------------------------------------------------------------
(* The identify run: resolution, review and the start of enrollment *)

\* The names the operator may type in interactive_training.
Names == {"alice", "dave"}

\* The largest suffix the model lets the probing loop reach.
MaxCont == 3

\* The loop left after the body has run once.
NextClusterOnce ==
    /\ k' = k + 1
    /\ pc' = "relabel"

\* Leaving the body of "for c in clusters" (line 505): the next cluster, or
\* the statements after the loop.
NextCluster ==
    /\ k' = k + 1
    /\ pc' = IF k + 1 > Len(ClusterOrder) THEN "relabel" ELSE "resolve"

\* The test of line 462 without the comparison of the name.
NeedsReviewAnyName(ret) == interactive = TRUE

\* Line 462: "if interactive == True and speakers[c] == 'unknown'".
NeedsReview(ret) == interactive = TRUE /\ ret = "unknown"

\* Lines 442-462: get_best_speaker is called outside any try, so its
\* exceptions end the run; proc = {} is executed for every cluster.
Resolve ==
    /\ pc = "resolve"
    /\ LET c == ClusterOrder[k]
           r == get_best_speaker(clusters[c])
       IN  /\ clusters' = [clusters EXCEPT ![c] = r.self]
           /\ IF r.err # "none"
              THEN /\ pc' = r.err
                   /\ UNCHANGED <<k, speakers, proc>>
              ELSE /\ speakers' = Put(speakers, c, r.ret)
                   /\ proc' = Empty
                   /\ IF NeedsReview(r.ret)
                      THEN pc' = "review" /\ k' = k
                      ELSE NextCluster
    /\ UNCHANGED <<config, db, files_in_db, p, jobs, disk, tasks, cwd, basename_gmm,
                   relabeled, alone>>

\* Lines 473-483: the name under which the model will be stored.  The loop
\* is entered only if <name>.gmm is in the partition; it stops at the first
\* cont whose .gmm is not in the partition and whose .wav is not in the
\* working directory.
IsFree(name, cont, gender) ==
    /\ name \o ToString(cont) \o ".gmm" \notin DOMAIN db[gender]
    /\ name \o ToString(cont) \o ".wav" \notin DOMAIN cwd

HasFree(name, gender) == \E cont \in 1..MaxCont : IsFree(name, cont, gender)

gmm_name(name, gender) ==
    IF name \o ".gmm" \in DOMAIN db[gender]
    THEN LET cont == CHOOSE n \in 1..MaxCont :
                        /\ IsFree(name, n, gender)
                        /\ \A m \in 1..(n - 1) : ~IsFree(name, m, gender)
         IN  name \o ToString(cont) \o ".gmm"
    ELSE name \o ".gmm"

\* os.path.splitext(gmm_name)[0]
Splitext(file) == SubSeq(file, 1, Len(file) - 4)

\* Lines 463-485: interactive_training returns name_i; a name other than
\* "unknown" is given its model name.
Review ==
    /\ pc = "review"
    /\ \E name_i \in Names \cup {"unknown"} :
         LET c == ClusterOrder[k]
             gender == clusters[c].gender
         IN  /\ speakers' = Put(speakers, c, name_i)
             /\ clusters' = [clusters EXCEPT ![c].speaker = name_i]
             /\ IF name_i # "unknown"
                THEN /\ name_i \o ".gmm" \in DOMAIN db[gender] => HasFree(name_i, gender)
                     /\ basename_gmm' = Splitext(gmm_name(name_i, gender))
                     /\ pc' = "merge"
                     /\ k' = k
                ELSE /\ NextCluster
                     /\ UNCHANGED basename_gmm
    /\ UNCHANGED <<config, db, files_in_db, p, jobs, disk, proc, tasks, cwd,
                   relabeled, alone>>

\* The enrollment child process of cluster c as it is forked: its arguments
\* and its copy of clusters[c].
Task(show, c, self) ==
    [alive |-> TRUE, step |-> "copy", result |-> "running", show |-> show,
     cluster |-> c, speaker |-> self.speaker, gender |-> self.gender,
     wave |-> self.wave]

\* Lines 487-502: merge_waves writes <basename_gmm>.wav (sox), or raises when
\* sox fails, which ends the run; then the Process is created and started.
MergeAndStart ==
    /\ pc = "merge"
    /\ LET c == ClusterOrder[k]
       IN  \E sox_ok \in BOOLEAN :
             IF sox_ok
             THEN /\ cwd' = Put(cwd, basename_gmm \o ".wav", Artifact(c, c))
                  /\ proc' = Put(proc, c, c)
                  /\ tasks' = Put(tasks, c, Task(basename_gmm, c, clusters[c]))
                  /\ NextCluster
             ELSE /\ pc' = "Exception"
                  /\ UNCHANGED <<k, cwd, proc, tasks>>
    /\ UNCHANGED <<config, clusters, db, files_in_db, p, jobs, disk, speakers,
                   basename_gmm, relabeled, alone>>

\* Lines 506-508: srt2subnames writes the relabeled subtitle.
Relabel ==
    /\ pc = "relabel"
    /\ relabeled' = TRUE
    /\ pc' = IF interactive = TRUE THEN "joinenroll" ELSE "done"
    /\ UNCHANGED <<config, clusters, db, files_in_db, k, p, jobs, disk, speakers,
                   proc, tasks, cwd, basename_gmm, alone>>

\* Lines 509-515: join every process of proc that is alive, then the summary.
JoinEnrollment ==
    /\ pc = "joinenroll"
    /\ \A c \in DOMAIN proc : ~tasks[proc[c]].alive
    /\ pc' = "done"
    /\ UNCHANGED <<config, clusters, db, files_in_db, k, p, jobs, disk, enrolment, alone>>

---------------------------------------------------------------------------
(* The enrollment child process: build_gmm_wrapper (lines 490-498) *)

\* The task of cluster c ends on an exception.
Fail(c) == tasks' = [tasks EXCEPT ![c].alive = FALSE, ![c].result = "failed"]

Goto(c, step) == tasks' = [tasks EXCEPT ![c].step = step]

AtStep(c, step) == c \in DOMAIN tasks /\ tasks[c].alive /\ tasks[c].step = step

\* Lines 85-89: the three copies from the cluster's files to <show>.*
TaskCopy(c) ==
    /\ AtStep(c, "copy")
    /\ LET t == tasks[c]
           oldshow == Splitext(t.wave)
       IN  cwd' = Put(Put(Put(cwd, t.show \o ".wav", cwd[oldshow \o ".wav"]),
                          t.show \o ".mfcc", cwd[oldshow \o ".mfcc"]),
                      t.show \o ".seg", cwd[oldshow \o ".seg"])
    /\ Goto(c, "ident")
    /\ UNCHANGED <<config, clusters, db, files_in_db, pc, k, p, jobs, disk, speakers,
                   proc, basename_gmm, relabeled, alone>>

\* Line 91: ident_seg(show, self.speaker) reads <show>.seg and writes
\* <show>.ident.seg with the speaker's name as the label.
TaskIdentSeg(c) ==
    /\ AtStep(c, "ident")
    /\ LET t == tasks[c]
       IN  IF t.show \o ".seg" \in DOMAIN cwd
           THEN /\ cwd' = Put(cwd, t.show \o ".ident.seg",
                              Artifact(cwd[t.show \o ".seg"].by, t.speaker))
                /\ Goto(c, "init")
           ELSE Fail(c) /\ UNCHANGED cwd
    /\ UNCHANGED <<config, clusters, db, files_in_db, pc, k, p, jobs, disk, speakers,
                   proc, basename_gmm, relabeled, alone>>

\* Line 93: train_init(show): the external trainer reads <show>.ident.seg and
\* <show>.wav and writes <show>.init.gmm, or fails.
TaskTrainInit(c) ==
    /\ AtStep(c, "init")
    /\ LET t == tasks[c]
           inputs == {t.show \o ".ident.seg", t.show \o ".wav"}
       IN  \E ok \in BOOLEAN :
             IF ok /\ inputs \subseteq DOMAIN cwd
             THEN /\ cwd' = Put(cwd, t.show \o ".init.gmm",
                                Artifact(cwd[t.show \o ".wav"].by,
                                         cwd[t.show \o ".ident.seg"].spk))
                  /\ Goto(c, "map")
             ELSE Fail(c) /\ UNCHANGED cwd
    /\ UNCHANGED <<config, clusters, db, files_in_db, pc, k, p, jobs, disk, speakers,
                   proc, basename_gmm, relabeled, alone>>

\* Line 95: train_map(show): reads <show>.ident.seg, <show>.mfcc and
\* <show>.init.gmm and writes <show>.gmm, or fails.
TaskTrainMap(c) ==
    /\ AtStep(c, "map")
    /\ LET t == tasks[c]
           inputs == {t.show \o ".ident.seg", t.show \o ".mfcc", t.show \o ".init.gmm"}
       IN  \E ok \in BOOLEAN :
             IF ok /\ inputs \subseteq DOMAIN cwd
             THEN /\ cwd' = Put(cwd, t.show \o ".gmm",
                                Artifact(cwd[t.show \o ".mfcc"].by,
                                         cwd[t.show \o ".ident.seg"].spk))
                  /\ Goto(c, "move")
             ELSE Fail(c) /\ UNCHANGED cwd
    /\ UNCHANGED <<config, clusters, db, files_in_db, pc, k, p, jobs, disk, speakers,
                   proc, basename_gmm, relabeled, alone>>

\* Lines 96-97: ensure_file_exists, then the test of shutil.move, which
\* raises when the destination directory already holds the name.
TaskMoveCheck(c) ==
    /\ AtStep(c, "move")
    /\ LET t == tasks[c]
       IN  IF /\ t.show \o ".gmm" \in DOMAIN cwd
              /\ t.show \o ".gmm" \notin DOMAIN db[t.gender]
           THEN Goto(c, "rename")
           ELSE Fail(c)
    /\ UNCHANGED <<config, clusters, db, files_in_db, pc, k, p, jobs, disk, speakers,
                   proc, cwd, basename_gmm, relabeled, alone>>

\* Line 97: the os.rename of shutil.move, which replaces a file of that name
\* and raises when the source is gone.
TaskRename(c) ==
    /\ AtStep(c, "rename")
    /\ LET t == tasks[c]
           gmm == t.show \o ".gmm"
       IN  IF gmm \in DOMAIN cwd
           THEN /\ db' = [db EXCEPT ![t.gender] = Put(@, gmm, cwd[gmm])]
                /\ cwd' = Del(cwd, gmm)
                /\ Goto(c, "cleanup")
           ELSE Fail(c) /\ UNCHANGED <<db, cwd>>
    /\ UNCHANGED <<config, clusters, files_in_db, pc, k, p, jobs, disk, speakers,
                   proc, basename_gmm, relabeled, alone>>

\* The files build_gmm_wrapper removes, in the order of lines 494-498.
Intermediate(show) ==
    <<show \o ".wav", show \o ".seg", show \o ".mfcc", show \o ".ident.seg",
      show \o ".init.gmm">>

\* os.remove of each file of a list in turn; a missing file raises and the
\* rest stay: [table, ok].
RECURSIVE RemoveAll(_, _)
RemoveAll(table, files) ==
    IF files = <<>> THEN [table |-> table, ok |-> TRUE]
    ELSE IF Head(files) \notin DOMAIN table THEN [table |-> table, ok |-> FALSE]
    ELSE RemoveAll(Del(table, Head(files)), Tail(files))

\* Lines 493-498: the removal of the working files, unless they are kept.
TaskCleanup(c) ==
    /\ AtStep(c, "cleanup")
    /\ IF keep_intermediate_files
       THEN /\ tasks' = [tasks EXCEPT ![c].alive = FALSE, ![c].result = "ok"]
            /\ UNCHANGED cwd
       ELSE LET r == RemoveAll(cwd, Intermediate(tasks[c].show))
            IN  /\ cwd' = r.table
                /\ tasks' = [tasks EXCEPT ![c].alive = FALSE,
                                          ![c].result = IF r.ok THEN "ok" ELSE "failed"]
    /\ UNCHANGED <<config, clusters, db, files_in_db, pc, k, p, jobs, disk, speakers,
                   proc, basename_gmm, relabeled, alone>>

---------------------------------------------------------------------------
(* The identify run: the specification *)

\* The per-cluster files written before scoring (lines 395-405).
ClusterFiles ==
    LET exts == {".wav", ".mfcc", ".seg"}
        paths == {Showname(c) \o e : c \in ClusterIds, e \in exts}
    IN  [f \in paths |->
           LET c == CHOOSE d \in ClusterIds : \E e \in exts : f = Showname(d) \o e
           IN  Artifact(c, c)]

\* The scorer outputs an earlier run over the same input and database left
\* behind (it ended on an exception before manage_ident read them).
StaleDisk(gender, value) ==
    LET olds == {<<c, f>> \in ClusterIds \X DOMAIN InitialDb[gender] :
                    EndsWith(f, ".gmm")}
        paths == {ScorerOutput(Showname(j[1]), j[2], gender) : j \in olds}
    IN  [f \in paths |->
           LET j == CHOOSE i \in olds : f = ScorerOutput(Showname(i[1]), i[2], gender)
           IN  ScoreLine(j[1], InitialDb[gender][j[2]].spk, value)]

\* The run has ended on an exception raised in extract_speakers.
Aborted == pc \in {"IOError", "ValueError", "IndexError", "Exception"}

\* No call of get_best_speaker has returned or raised yet.
NoResult == [called |-> FALSE, err |-> "none", ret |-> None]

\* The Cluster object in use when the functions are taken alone: its dict, the
\* values passed to add_speaker so far, the dict before the last call, the
\* arguments of the last call and the outcome of get_best_speaker.
RsIdle ==
    [speakers |-> Empty, passed |-> Empty, prev |-> Empty, last |-> <<>>,
     calls |-> 0, out |-> NoResult]

\* Option -k (line 610) is stored in options.keep_intermediate_files.  The
\* statements of __main__ after parse_args (lines 612-620) assign db_dir and
\* lium_jar only: the module-level keep_intermediate_files, which manage_ident
\* and build_gmm_wrapper test, keeps the value of line 17 whatever the option.
ModuleFlagAfterMain(opts) == FALSE

\* The state at line 411: the options are parsed, the clusters are read, each
\* has its gender and its merged wave.
Init ==
    /\ cpus \in 1..MaxCpus
    /\ interactive \in BOOLEAN
    /\ options \in [keep_intermediate_files : BOOLEAN]
    /\ keep_intermediate_files = ModuleFlagAfterMain(options)
    /\ \E gender \in [ClusterIds -> Genders] :
         clusters = [c \in ClusterIds |->
                       [Cluster(c, gender[c]) EXCEPT !.wave = Showname(c) \o ".wav"]]
    /\ db = InitialDb
    /\ files_in_db = [g \in Genders |-> <<>>]
    /\ pc = "listdb"
    /\ k = 1
    /\ p = Empty
    /\ jobs = Empty
    /\ disk \in {Empty} \cup {StaleDisk("M", v) : v \in Scores}
    /\ speakers = Empty
    /\ proc = Empty
    /\ tasks = Empty
    /\ cwd = ClusterFiles
    /\ basename_gmm = None
    /\ relabeled = FALSE
    /\ rs = RsIdle
    /\ sg = None
    /\ it = None
    /\ bg = None

Next ==
    \/ ListDb
    \/ CheckBound
    \/ PollBound
    \/ StartJob
    \/ \E j \in DOMAIN jobs : JobExit(j)
    \/ JoinJobs
    \/ ManageIdent
    \/ Resolve
    \/ Review
    \/ MergeAndStart
    \/ Relabel
    \/ JoinEnrollment
    \/ \E c \in DOMAIN tasks : TaskCopy(c)
    \/ \E c \in DOMAIN tasks : TaskIdentSeg(c)
    \/ \E c \in DOMAIN tasks : TaskTrainInit(c)
    \/ \E c \in DOMAIN tasks : TaskTrainMap(c)
    \/ \E c \in DOMAIN tasks : TaskMoveCheck(c)
    \/ \E c \in DOMAIN tasks : TaskRename(c)
    \/ \E c \in DOMAIN tasks : TaskCleanup(c)

Spec == Init /\ [][Next]_vars

---------------------------------------------------------------------------
(* The functions of class Cluster taken alone *)

\* The speaker names and the score values (hundredths) the calls draw from.
RNames == {"alice", "bob", "carol"}
RScores == {-5000, -4000, -3300, -2500, -2010, -2005, -2000, 150}

\* The number of add_speaker calls the model makes on one Cluster.
MaxCalls == 3

\* One call self.add_speaker(name, value).
RAddSpeaker ==
    /\ pc = "functions"
    /\ rs.calls < MaxCalls
    /\ \E name \in RNames, value \in RScores :
         rs' = [speakers |-> add_speaker(rs.speakers, name, value),
                passed |-> Put(rs.passed, name,
                               (IF name \in DOMAIN rs.passed
                                THEN rs.passed[name] ELSE {}) \cup {value}),
                prev |-> rs.speakers,
                last |-> <<name, value>>,
                calls |-> rs.calls + 1,
                out |-> NoResult]
    /\ UNCHANGED <<runvars, sg, it, bg>>

\* One call self.get_best_speaker().
RGetBestSpeaker ==
    /\ pc = "functions"
    /\ ~rs.out.called
    /\ LET r == get_best_speaker([Cluster("S0", "U") EXCEPT !.speakers = rs.speakers])
       IN  rs' = [rs EXCEPT !.out = [called |-> TRUE, err |-> r.err, ret |-> r.ret]]
    /\ UNCHANGED <<runvars, sg, it, bg>>

\* No run of extract_speakers is going on.
NoRun ==
    /\ pc = "functions"
    /\ cpus = 1
    /\ interactive = FALSE
    /\ options = [keep_intermediate_files |-> FALSE]
    /\ keep_intermediate_files = FALSE
    /\ clusters = Empty
    /\ db = InitialDb
    /\ files_in_db = [g \in Genders |-> <<>>]
    /\ k = 1
    /\ p = Empty
    /\ jobs = Empty
    /\ disk = Empty
    /\ speakers = Empty
    /\ proc = Empty
    /\ tasks = Empty
    /\ cwd = Empty
    /\ basename_gmm = None
    /\ relabeled = FALSE

\* A Cluster as Cluster.__init__ leaves it.
InitResolver ==
    /\ NoRun
    /\ rs = RsIdle
    /\ sg = None
    /\ it = None
    /\ bg = None

NextResolver == RAddSpeaker \/ RGetBestSpeaker

SpecResolver == InitResolver /\ [][NextResolver]_vars

---------------------------------------------------------------------------
(* Segmentation files: extract_clusters, generate_seg_file, ident_seg *)

\* A file is the sequence of its lines, each ended by a newline; a line is the
\* sequence of its whitespace-separated tokens (str.split()), so that an
\* empty line is <<>>.  The tokens are strings.

\* str.startswith
StartsWith(s, prefix) ==
    /\ Len(s) >= Len(prefix)
    /\ SubSeq(s, 1, Len(prefix)) = prefix

\* str.replace(old, new) with a non-empty old: every occurrence, left to right.
RECURSIVE Replace(_, _, _)
Replace(s, old, new) ==
    IF Len(s) < Len(old) THEN s
    ELSE IF SubSeq(s, 1, Len(old)) = old
         THEN new \o Replace(SubSeq(s, Len(old) + 1, Len(s)), old, new)
         ELSE SubSeq(s, 1, 1) \o Replace(SubSeq(s, 2, Len(s)), old, new)

\* str.split(':'): the parts between the colons.
RECURSIVE SplitColon(_)
SplitColon(s) ==
    IF \A i \in 1..Len(s) : SubSeq(s, i, i) # ":" THEN <<s>>
    ELSE LET i == CHOOSE j \in 1..Len(s) :
                     /\ SubSeq(s, j, j) = ":"
                     /\ \A h \in 1..(j - 1) : SubSeq(s, h, h) # ":"
         IN  <<SubSeq(s, 1, i - 1)>> \o SplitColon(SubSeq(s, i + 1, Len(s)))

\* The value of one decimal digit.
Digit(ch) ==
    CASE ch = "0" -> 0 [] ch = "1" -> 1 [] ch = "2" -> 2 [] ch = "3" -> 3
      [] ch = "4" -> 4 [] ch = "5" -> 5 [] ch = "6" -> 6 [] ch = "7" -> 7
      [] ch = "8" -> 8 [] ch = "9" -> 9 [] OTHER -> -1

\* int() accepts the token (an unsigned decimal; the files hold no sign).
IsInt(s) == Len(s) > 0 /\ \A i \in 1..Len(s) : Digit(SubSeq(s, i, i)) >= 0

\* int() of a token of decimal digits.
RECURSIVE int(_)
int(s) ==
    IF Len(s) = 0 THEN 0
    ELSE 10 * int(SubSeq(s, 1, Len(s) - 1)) + Digit(SubSeq(s, Len(s), Len(s)))

\* The fields of a Cluster the segmentation functions use, as
\* Cluster.__init__(name, gender, frames) leaves them.
ClusterSeg(name, gender, frames) ==
    [name |-> name, gender |-> gender, frames |-> frames, e |-> None,
     segments |-> <<>>, seg_header |-> <<>>]

\* The object stored at a header line when the id is already in the dict,
\* were the frame count of the old object carried over.
HeaderClusterKeepsFrames(dict, speaker_id, l) ==
    IF speaker_id \in DOMAIN dict
    THEN [ClusterSeg(speaker_id, "U", dict[speaker_id].frames) EXCEPT !.seg_header = l]
    ELSE [ClusterSeg(speaker_id, "U", 0) EXCEPT !.seg_header = l]

\* Lines 307-310: the object stored at a header line, whatever the dict holds.
HeaderCluster(dict, speaker_id, l) ==
    [ClusterSeg(speaker_id, "U", 0) EXCEPT !.seg_header = l]

\* One iteration of the loop of extract_clusters on line l: [err, dict, last].
\* l.split()[1].split(':')[1] raises IndexError on a header without a second
\* token or without a colon in it; a data line before any header finds
\* last_cluster None (AttributeError); a data line of fewer than 4 tokens is
\* appended and then raises IndexError at int(line[3]), one that is no
\* number ValueError; fewer than 6 tokens raise IndexError once frames and
\* gender are assigned.
ExtractLine(dict, last_cluster, l) ==
    IF l # <<>> /\ StartsWith(l[1], ";;")
    THEN IF Len(l) < 2 \/ Len(SplitColon(l[2])) < 2
         THEN [err |-> "IndexError", dict |-> dict, last |-> last_cluster]
         ELSE LET speaker_id == SplitColon(l[2])[2]
              IN  [err |-> "none",
                   dict |-> Put(dict, speaker_id, HeaderCluster(dict, speaker_id, l)),
                   last |-> speaker_id]
    ELSE IF last_cluster = None
         THEN [err |-> "AttributeError", dict |-> dict, last |-> last_cluster]
         ELSE LET c1 == [dict[last_cluster] EXCEPT !.segments = Append(@, l)]
              IN  IF Len(l) < 4
                  THEN [err |-> "IndexError", dict |-> Put(dict, last_cluster, c1),
                        last |-> last_cluster]
                  ELSE IF ~IsInt(l[4])
                  THEN [err |-> "ValueError", dict |-> Put(dict, last_cluster, c1),
                        last |-> last_cluster]
                  ELSE LET c2 == [c1 EXCEPT !.frames = @ + int(l[4])]
                       IN  IF Len(l) < 5
                           THEN [err |-> "IndexError", dict |-> Put(dict, last_cluster, c2),
                                 last |-> last_cluster]
                           ELSE IF Len(l) < 6
                           THEN [err |-> "IndexError",
                                 dict |-> Put(dict, last_cluster, [c2 EXCEPT !.gender = l[5]]),
                                 last |-> last_cluster]
                           ELSE [err |-> "none",
                                 dict |-> Put(dict, last_cluster,
                                              [c2 EXCEPT !.gender = l[5], !.e = l[6]]),
                                 last |-> last_cluster]

\* The loop of generate_seg_file without "start_time += int(line[3])".
RestartNoAdvance(segments, start_time) ==
    [i \in 1..Len(segments) |-> [segments[i] EXCEPT ![3] = start_time]]

\* Lines 78-81 of generate_seg_file on the list self.segments: line[2] of
\* each segment becomes the sum of the int(line[3]) before it.  In memory the
\* start is a number, in the file its "%s" form.
RECURSIVE Restart(_, _)
Restart(segments, start_time) ==
    IF segments = <<>> THEN <<>>
    ELSE LET line == Head(segments)
         IN  <<[line EXCEPT ![3] = start_time]>>
             \o Restart(Tail(segments), start_time + int(line[4]))

\* "%s %s %s %s %s %s %s %s\n" % tuple(line), read back as tokens.
FormatLine(line) == [line EXCEPT ![3] = ToString(@)]

\* The lines generate_seg_file writes for self: the header, then the segments.
SegFileOf(self) ==
    <<self.seg_header>>
    \o [i \in 1..Len(self.segments) |-> FormatLine(Restart(self.segments, 0)[i])]

\* The cluster ids ident_seg collects from the tokens "cluster:<c>" of the
\* lines, in file order.
RECURSIVE ClusterTokens(_)
ClusterTokens(tokens) ==
    IF tokens = <<>> THEN <<>>
    ELSE (IF StartsWith(Head(tokens), "cluster:") THEN <<Head(tokens)>> ELSE <<>>)
         \o ClusterTokens(Tail(tokens))

RECURSIVE Concat(_)
Concat(seqs) == IF seqs = <<>> THEN <<>> ELSE Head(seqs) \o Concat(Tail(seqs))

\* list.reverse()
Reverse(seq) == [i \in 1..Len(seq) |-> seq[Len(seq) + 1 - i]]

\* "for c in clusters: line = line.replace(c, name)" on one token (no id and
\* no name holds whitespace, so that no occurrence spans two tokens).
RECURSIVE ReplaceEach(_, _, _)
ReplaceEach(tok, cs, name) ==
    IF cs = <<>> THEN tok
    ELSE ReplaceEach(Replace(tok, Head(cs), name), Tail(cs), name)

\* ident_seg on the lines of <showname>.seg: [err, lines].  "prefix,c =
\* k.split(':')" raises ValueError unless the token has one colon.  Each line
\* read still ends with its newline and is written followed by another one:
\* an empty line follows every line of the output.
ident_seg(lines, name) ==
    LET ks == ClusterTokens(Concat(lines))
    IN  IF \E i \in 1..Len(ks) : Len(SplitColon(ks[i])) # 2
        THEN [err |-> "ValueError", lines |-> <<>>]
        ELSE LET cs == Reverse([i \in 1..Len(ks) |-> SplitColon(ks[i])[2]])
                 out(line) == [j \in 1..Len(line) |-> ReplaceEach(line[j], cs, name)]
             IN  [err |-> "none",
                  lines |-> Concat([i \in 1..Len(lines) |-> <<out(lines[i]), <<>> >>])]

\* The cluster ids, show names, start and duration tokens, genders and the
\* names given to ident_seg that the segmentation files are drawn from.
SegIds == {"S0", "S1"}
Shows == {"rec", "S1E2"}
Starts == {"0", "300"}
Durations == {"150", "40"}
SegGenders == {"M", "F"}
IdentNames == {"dave", "S0b"}

\* The largest number of lines of a segmentation file.
MaxLines == 3

\* A header line and a data line as the diarizer writes them.
HeaderLine(id) == <<";;", "cluster:" \o id>>
DataLine(show, start, duration, gender, id) ==
    <<show, "1", start, duration, gender, "S", "U", id>>

IsHeader(l) == l # <<>> /\ StartsWith(l[1], ";;")

\* The files of a show: a header first, and every data line labelled with
\* the id of the header above it.
SegLines(show) ==
    {HeaderLine(id) : id \in SegIds}
    \cup {DataLine(show, s, d, g, id) :
            s \in Starts, d \in Durations, g \in SegGenders, id \in SegIds}

SegFiles(show) ==
    UNION {{f \in [1..n -> SegLines(show)] :
              /\ IsHeader(f[1])
              /\ \A i \in 2..n :
                    ~IsHeader(f[i]) =>
                        \E h \in 1..(i - 1) :
                            /\ f[h] = HeaderLine(f[i][8])
                            /\ \A j \in (h + 1)..(i - 1) : ~IsHeader(f[j])}
           : n \in 1..MaxLines}

\* extract_clusters is called on the lines of a file, with an empty dict.
SgCall(state, lines, pass) ==
    [state EXCEPT !.reading = lines, !.pos = 1, !.pc = "extract", !.pass = pass,
                  !.clusters = Empty, !.last_cluster = None]

SgStart(show, lines) ==
    SgCall([show |-> show, input |-> lines, reading |-> <<>>, pos |-> 1,
            pc |-> "extract", pass |-> 1, clusters |-> Empty, last_cluster |-> None,
            first |-> Empty, files |-> Empty, src |-> <<>>, name |-> None],
           lines, 1)

\* One iteration of "for l in f" of extract_clusters, or its return.
SegExtractLine ==
    /\ pc = "functions"
    /\ sg.pc = "extract"
    /\ IF sg.pos > Len(sg.reading)
       THEN sg' = [sg EXCEPT !.pc = "returned"]
       ELSE LET r == ExtractLine(sg.clusters, sg.last_cluster, sg.reading[sg.pos])
            IN  sg' = [sg EXCEPT !.clusters = r.dict, !.last_cluster = r.last,
                                 !.pos = IF r.err = "none" THEN @ + 1 ELSE @,
                                 !.pc = IF r.err = "none" THEN @ ELSE r.err]
    /\ UNCHANGED <<runvars, rs, it, bg>>

\* clusters[c].generate_seg_file(show + ".seg") (line 405), once per cluster:
\* the string format raises TypeError on a segment that has not 8 fields.
SegGenerate(c) ==
    /\ pc = "functions"
    /\ sg.pc = "returned"
    /\ sg.pass = 1
    /\ c \in DOMAIN sg.clusters
    /\ c \notin DOMAIN sg.files
    /\ LET self == sg.clusters[c]
       IN  IF \E i \in 1..Len(self.segments) : Len(self.segments[i]) # 8
           THEN sg' = [sg EXCEPT !.pc = "TypeError"]
           ELSE sg' = [sg EXCEPT !.files = Put(@, c, SegFileOf(self)),
                                 !.clusters[c].segments = Restart(@, 0)]
    /\ UNCHANGED <<runvars, rs, it, bg>>

\* ident_seg(showname, name) on the file read, or on a file generate_seg_file
\* wrote, followed by the call of extract_clusters on <showname>.ident.seg.
SegIdent(name, from) ==
    /\ pc = "functions"
    /\ sg.pc = "returned"
    /\ sg.pass = 1
    /\ from \in {"input"} \cup DOMAIN sg.files
    /\ LET lines == IF from = "input" THEN sg.input ELSE sg.files[from]
           r == ident_seg(lines, name)
       IN  IF r.err # "none"
           THEN sg' = [sg EXCEPT !.pc = r.err]
           ELSE sg' = SgCall([sg EXCEPT !.first = sg.clusters, !.src = lines,
                                        !.name = name],
                             r.lines, 2)
    /\ UNCHANGED <<runvars, rs, it, bg>>

InitSeg ==
    /\ NoRun
    /\ rs = RsIdle
    /\ sg \in UNION {{SgStart(show, lines) : lines \in SegFiles(show)} : show \in Shows}
    /\ it = None
    /\ bg = None

NextSeg ==
    \/ SegExtractLine
    \/ \E c \in SegIds : SegGenerate(c)
    \/ \E name \in IdentNames, from \in {"input"} \cup SegIds : SegIdent(name, from)

SpecSeg == InitSeg /\ [][NextSeg]_vars

---------------------------------------------------------------------------
(* interactive_training (lines 517-559) *)

\* The answers the operator may type at the three prompts.
Chars == {"1", "2", "3", ""}
TypedNames == {"", "dave", "alice"}
Oks == {"y", "ye", "yes", "n", "no", "nop", "nope", "r", "replay", "Y", "maybe", ""}

\* The number of answers the model lets the operator give in one call.
MaxAnswers == 6

\* The confirmation with every unrecognised answer taken for a yes.
AfterConfirmDefaultYes(ok) ==
    IF ok \in {"n", "no", "nop", "nope"} THEN "break"
    ELSE IF ok \in {"r", "replay"} THEN "replay"
    ELSE "return"

\* Lines 543-554: what the answer to "Save as '<name>'? [y/n/r]" leads to.
AfterConfirm(ok) ==
    IF ok \in {"y", "ye", "yes"} THEN "return"
    ELSE IF ok \in {"n", "no", "nop", "nope"} THEN "break"
    ELSE IF ok \in {"r", "replay"} THEN "replay"
    ELSE "again"

\* The call as it starts: the menu is printed, nothing is asked yet.  p is
\* the player process, ret the value returned; typed, shown and last record
\* the name typed last, the name the last confirmation showed, and the last
\* prompt answered with its answer.
ItStart ==
    [pc |-> "menu", name |-> None, p |-> "none", ret |-> None, asked |-> 0,
     typed |-> None, shown |-> None, last |-> [at |-> "none", answer |-> None]]

\* Lines 525-535 and 558-559: char = raw_input("Choice: ").
ItChoice ==
    /\ pc = "functions"
    /\ it.pc = "menu"
    /\ it.asked < MaxAnswers
    /\ \E char \in Chars :
         LET asked == [it EXCEPT !.asked = @ + 1,
                                 !.last = [at |-> "menu", answer |-> char]]
         IN  it' = IF char = "1" THEN [asked EXCEPT !.p = "playing", !.pc = "name"]
                   ELSE IF char = "2" THEN [asked EXCEPT !.ret = "unknown",
                                                         !.pc = "returned"]
                   ELSE asked
    /\ UNCHANGED <<runvars, rs, sg, bg>>

\* Line 538: name = raw_input("Type speaker name or leave blank ...").
ItName ==
    /\ pc = "functions"
    /\ it.pc = "name"
    /\ it.asked < MaxAnswers
    /\ \E name \in TypedNames :
         it' = [it EXCEPT !.asked = @ + 1, !.name = name, !.typed = name,
                          !.last = [at |-> "name", answer |-> name],
                          !.pc = "confirm"]
    /\ UNCHANGED <<runvars, rs, sg, bg>>

\* Lines 540-554: one turn of the inner loop.  An empty name becomes
\* "unknown" before the prompt; yes kills the player and returns the name, no
\* leaves the inner loop, replay restarts the player (killing it first if
\* poll() finds it running) and leaves the inner loop, anything else prints
\* "Yes or no, please!" and takes another turn.
ItConfirm ==
    /\ pc = "functions"
    /\ it.pc = "confirm"
    /\ it.asked < MaxAnswers
    /\ \E ok \in Oks :
         LET name == IF Len(it.name) = 0 THEN "unknown" ELSE it.name
             asked == [it EXCEPT !.asked = @ + 1, !.name = name, !.shown = name,
                                 !.last = [at |-> "confirm", answer |-> ok]]
             to == AfterConfirm(ok)
         IN  it' = IF to = "return"
                   THEN [asked EXCEPT !.p = "killed", !.ret = name, !.pc = "returned"]
                   ELSE IF to = "break" THEN [asked EXCEPT !.pc = "name"]
                   ELSE IF to = "replay" THEN [asked EXCEPT !.p = "playing", !.pc = "name"]
                   ELSE asked
    /\ UNCHANGED <<runvars, rs, sg, bg>>

\* The player reaches the end of the cluster's waves and exits.
ItPlayerExits ==
    /\ pc = "functions"
    /\ it.p = "playing"
    /\ it.pc # "returned"
    /\ it' = [it EXCEPT !.p = "exited"]
    /\ UNCHANGED <<runvars, rs, sg, bg>>

InitReview ==
    /\ NoRun
    /\ rs = RsIdle
    /\ sg = None
    /\ it = ItStart
    /\ bg = None

NextReview == ItChoice \/ ItName \/ ItConfirm \/ ItPlayerExits

SpecReview == InitReview /\ [][NextReview]_vars

---------------------------------------------------------------------------
(* Speaker model creation: __main__ (lines 622-635) and build_gmm *)

\* The speaker identifiers option -s may give.
SpeakerIds == {"dave", "alice"}

\* The largest number of arguments of option -g.
MaxWaves == 3

\* The arguments of option -g: one wave, or waves followed by the name of the
\* wave they are merged into.
WaveLists ==
    {[i \in 1..n |-> IF n > 1 /\ i = n THEN "all.wav"
                     ELSE "take" \o ToString(i) \o ".wav"] : n \in 1..MaxWaves}

\* The process after parse_args and check_deps, in speaker model creation
\* mode: files is the set of files it has written, seg the lines of
\* <show>.seg and ident those of <show>.ident.seg.
BgStart(waves, speakerid) ==
    [pc |-> "main", waves |-> waves, speaker |-> speakerid, show |-> None,
     files |-> {}, seg |-> <<>>, ident |-> <<>>]

\* An external program run by start_subprocess fails: the exception ends the
\* process.
BgRaise == bg' = [bg EXCEPT !.pc = "Exception"]

\* Lines 623-633: the waves but the last are merged into the last (sox), a
\* single wave is taken as it is; show is its name without the extension.
BgMain ==
    /\ pc = "functions"
    /\ bg.pc = "main"
    /\ LET w == bg.waves[Len(bg.waves)]
       IN  IF Len(bg.waves) > 1
           THEN \E sox_ok \in BOOLEAN :
                  IF sox_ok
                  THEN bg' = [bg EXCEPT !.files = @ \cup {w}, !.show = Splitext(w),
                                        !.pc = "diarization"]
                  ELSE BgRaise
           ELSE bg' = [bg EXCEPT !.show = Splitext(w), !.pc = "diarization"]
    /\ UNCHANGED <<runvars, rs, sg, it>>

\* diarization(show): the diarizer writes <show>.seg, or fails.
BgDiarization ==
    /\ pc = "functions"
    /\ bg.pc = "diarization"
    /\ \/ \E lines \in SegFiles(bg.show) :
            bg' = [bg EXCEPT !.seg = lines, !.files = @ \cup {bg.show \o ".seg"},
                             !.pc = "ident_seg"]
       \/ BgRaise
    /\ UNCHANGED <<runvars, rs, sg, it>>

\* ident_seg(show, name): every cluster of <show>.seg gets the speaker's name.
BgIdentSeg ==
    /\ pc = "functions"
    /\ bg.pc = "ident_seg"
    /\ LET r == ident_seg(bg.seg, bg.speaker)
       IN  IF r.err # "none" \/ r.lines = <<>>
           THEN BgRaise
           ELSE bg' = [bg EXCEPT !.ident = r.lines,
                                 !.files = @ \cup {bg.show \o ".ident.seg"},
                                 !.pc = "extract_mfcc"]
    /\ UNCHANGED <<runvars, rs, sg, it>>

\* extract_mfcc, train_init and train_map: each runs an external program
\* that writes one file named after show, or fails.
BgExternal(step, ext, next) ==
    /\ pc = "functions"
    /\ bg.pc = step
    /\ \E ok \in BOOLEAN :
         IF ok
         THEN bg' = [bg EXCEPT !.files = @ \cup {bg.show \o ext}, !.pc = next]
         ELSE BgRaise
    /\ UNCHANGED <<runvars, rs, sg, it>>

BgExtractMfcc == BgExternal("extract_mfcc", ".mfcc", "train_init")
BgTrainInit == BgExternal("train_init", ".init.gmm", "train_map")

\* train_map is the last statement of build_gmm; exit(0) follows it.
BgTrainMap == BgExternal("train_map", ".gmm", "exit0")

InitBuild ==
    /\ NoRun
    /\ rs = RsIdle
    /\ sg = None
    /\ it = None
    /\ bg \in {BgStart(waves, s) : waves \in WaveLists, s \in SpeakerIds}

NextBuild ==
    \/ BgMain
    \/ BgDiarization
    \/ BgIdentSeg
    \/ BgExtractMfcc
    \/ BgTrainInit
    \/ BgTrainMap

SpecBuild == InitBuild /\ [][NextBuild]_vars

---------------------------------------------------------------------------
(* The scoring scheduler taken alone (lines 412-432), with fairness *)

\* Every pair a run of the model can schedule.
JobIds == ClusterIds \X {f \in UNION {DOMAIN InitialDb[g] : g \in Genders} :
                            EndsWith(f, ".gmm")}

\* A non-interactive run with no scorer output left behind.
InitSched ==
    /\ Init
    /\ interactive = FALSE
    /\ options.keep_intermediate_files = FALSE
    /\ disk = Empty

\* The statements of extract_speakers from the listing to the join loop: the
\* coordinator, which is one sequential process.
Coordinator == ListDb \/ CheckBound \/ PollBound \/ StartJob \/ JoinJobs

NextSched == Coordinator \/ \E j \in DOMAIN jobs : JobExit(j)

\* The coordinator keeps running (its polling loop re-tests the count every
\* second), and every scoring job that was started ends.
SpecSched ==
    /\ InitSched
    /\ [][NextSched]_vars
    /\ WF_vars(Coordinator)
    /\ \A j \in JobIds : WF_vars(JobExit(j))

---------------------------------------------------------------------------
(* Properties of the scoring phase *)

\* The scoring jobs started and not yet finished.
InFlight == {j \in DOMAIN jobs : jobs[j].alive}

\* The positions of extract_speakers up to and including the join loop.
PreJoin == {"listdb", "sched", "wait", "start", "join"}

\* C1: at every moment of the scoring phase, under every interleaving of job
\* exits with the test and the start of the coordinator, the number of
\* scoring jobs started and not yet finished is at most cpus.
C1_InFlightWithinBound == Cardinality(InFlight) <= cpus

\* C1 happens: the coordinator polls with cpus > 1 jobs in flight and a pair
\* still to schedule.
C1_Witness ==
    /\ pc = "wait"
    /\ cpus > 1
    /\ Cardinality(InFlight) = cpus
    /\ k <= Len(Pairs)

\* C2: once extract_speakers is past the join loop, and whenever any score
\* has been aggregated or any cluster resolved, no scoring job is in flight.
C2_JoinBarrier ==
    (\/ pc \notin PreJoin
     \/ \E c \in DOMAIN clusters : DOMAIN clusters[c].speakers # {}
     \/ DOMAIN speakers # {})
    => InFlight = {}

\* C2 happens: aggregation is under way after more jobs than cpus were run.
C2_Witness ==
    /\ pc = "ident"
    /\ k > 1
    /\ Cardinality(DOMAIN jobs) > cpus
    /\ \E c \in DOMAIN clusters : DOMAIN clusters[c].speakers # {}

\* C3: if the external scorer of some job returned a non-zero status, then no
\* cluster is resolved, no relabeled subtitle is written and the run does not
\* reach its end.
C3_FailedJobAbortsRun ==
    (\E j \in DOMAIN jobs : jobs[j].retval = "nonzero")
    => (DOMAIN speakers = {} /\ ~relabeled /\ pc # "done")

---------------------------------------------------------------------------
(* Properties of add_speaker and get_best_speaker *)

\* C4: the stored score of every speaker is the maximum of the values passed
\* for it; the last call left the entry of its speaker unchanged or raised
\* it, added no other entry and changed no other entry.
C4_StoredScoreIsMaximum ==
    /\ DOMAIN rs.speakers = DOMAIN rs.passed
    /\ \A s \in DOMAIN rs.passed : rs.speakers[s] = Max(rs.passed[s])
    /\ rs.calls > 0 =>
         /\ DOMAIN rs.speakers = DOMAIN rs.prev \cup {rs.last[1]}
         /\ \A s \in DOMAIN rs.prev :
              IF s = rs.last[1]
              THEN \/ rs.speakers[s] = rs.prev[s]
                   \/ rs.speakers[s] = rs.last[2] /\ rs.last[2] > rs.prev[s]
              ELSE rs.speakers[s] = rs.prev[s]

\* C4 happens: a value lower than the stored one was passed for a speaker.
C4_Witness ==
    /\ rs.calls > 1
    /\ rs.last[1] \in DOMAIN rs.prev
    /\ rs.last[2] < rs.prev[rs.last[1]]
    /\ rs.speakers[rs.last[1]] = rs.prev[rs.last[1]]

\* The highest score of a map, the second-highest (the highest of the values
\* left when one holder of the highest is taken out) and the distance.
Highest(spk) == Max({spk[s] : s \in DOMAIN spk})

SecondHighest(spk) ==
    LET top == CHOOSE s \in DOMAIN spk : spk[s] = Highest(spk)
    IN  Max({spk[s] : s \in DOMAIN spk \ {top}})

Distance(spk) == Abs(SecondHighest(spk)) - Abs(Highest(spk))

\* get_best_speaker was called on a map of at least two entries.
CalledOnTwo == rs.out.called /\ Cardinality(DOMAIN rs.speakers) >= 2

\* C5: on a map of at least two entries whose distance is below .1,
\* get_best_speaker returns "unknown", whoever holds the highest score.
C5_CloseScoresAreUnknown ==
    (CalledOnTwo /\ Distance(rs.speakers) < 10)
    => (rs.out.err = "none" /\ rs.out.ret = "unknown")

\* C5 happens: {alice: -20.0, bob: -20.05} gave "unknown".
C5_Witness ==
    /\ rs.out.called
    /\ DOMAIN rs.speakers = {"alice", "bob"}
    /\ rs.speakers["alice"] = -2000
    /\ rs.speakers["bob"] = -2005
    /\ rs.out.ret = "unknown"

\* The value returned is a speaker of the map that holds its highest score.
ReturnsBest ==
    /\ rs.out.err = "none"
    /\ rs.out.ret \in DOMAIN rs.speakers
    /\ rs.speakers[rs.out.ret] = Highest(rs.speakers)

\* C6 as stated: on a map of at least two entries whose distance is at least
\* .1, get_best_speaker returns the holder of the highest score, whatever
\* that score is.
C6_AsStated ==
    (CalledOnTwo /\ Distance(rs.speakers) >= 10) => ReturnsBest

\* C6 amended: on a map of at least two entries whose distance is at least
\* .1, get_best_speaker returns the holder of the highest score when that
\* score is greater than -33.0, and "unknown" when it is not.
C6_BestAboveFloor ==
    (CalledOnTwo /\ Distance(rs.speakers) >= 10)
    => IF Highest(rs.speakers) > -3300
       THEN ReturnsBest
       ELSE rs.out.err = "none" /\ rs.out.ret = "unknown"

\* C6 happens: {alice: -20.0, bob: -25.0} gave alice, at distance 5.0.
C6_Witness ==
    /\ rs.out.called
    /\ DOMAIN rs.speakers = {"alice", "bob"}
    /\ rs.speakers["alice"] = -2000
    /\ rs.speakers["bob"] = -2500
    /\ Distance(rs.speakers) = 500
    /\ rs.out.ret = "alice"

---------------------------------------------------------------------------
(* Properties of resolution and enrollment *)

\* The place of cluster c in the loop over the clusters.
Index(c) == CHOOSE i \in 1..Len(ClusterOrder) : ClusterOrder[i] = c

\* The loop of lines 442-505 has executed line 444 for cluster c.
Reached(c) ==
    \/ pc \in {"relabel", "joinenroll", "done"}
    \/ /\ pc \in {"resolve", "review", "merge", "ValueError", "IndexError", "Exception"}
       /\ \/ Index(c) < k
          \/ Index(c) = k /\ pc # "resolve"

\* C7: a cluster whose score map is empty is resolved without an error and,
\* unless a review renames it, is labeled "unknown"; the run goes on.
C7_EmptyMapResolvesUnknown ==
    \A c \in DOMAIN clusters :
        (DOMAIN clusters[c].speakers = {} /\ Reached(c))
        => /\ pc # "ValueError"
           /\ c \in DOMAIN speakers
           /\ ~interactive => speakers[c] = "unknown"

\* C8: a cluster whose score map has exactly one entry is resolved without
\* an error and the run goes on.
C8_SingleEntryResolves ==
    \A c \in DOMAIN clusters :
        (Cardinality(DOMAIN clusters[c].speakers) = 1 /\ Reached(c))
        => /\ pc # "IndexError"
           /\ c \in DOMAIN speakers

\* build_and_store_gmm has returned in the task of cluster c: its model is
\* in the database.
Stored(c) == tasks[c].step = "cleanup"

\* C9: every enrollment task that has stored its model did so under a name
\* that no artifact present at the start of the run has and that no other
\* task of the run uses in that partition, and every artifact present at
\* the start of the run is still there, unchanged.
C9_EnrollmentNeverOverwrites ==
    /\ \A c \in DOMAIN tasks :
          Stored(c) =>
            /\ tasks[c].show \o ".gmm" \notin DOMAIN InitialDb[tasks[c].gender]
            /\ \A d \in DOMAIN tasks \ {c} :
                  ~(tasks[d].gender = tasks[c].gender /\ tasks[d].show = tasks[c].show)
    /\ \A g \in Genders : \A f \in DOMAIN InitialDb[g] :
          f \in DOMAIN db[g] /\ db[g][f] = InitialDb[g][f]

\* C10: when the run reports completion, every enrollment task started in it
\* has ended.
C10_AllTasksJoined ==
    pc = "done" => \A c \in DOMAIN tasks : ~tasks[c].alive

---------------------------------------------------------------------------
(* Properties of the intermediate files *)

\* The pairs manage_ident has been called for so far.
ReadByManageIdent ==
    IF pc \in {"listdb", "sched", "wait", "start", "join", "functions"} THEN {}
    ELSE IF pc \in {"ident", "IOError"} THEN {Pairs[i] : i \in 1..(k - 1)}
    ELSE {Pairs[i] : i \in 1..Len(Pairs)}

\* C11: in a run started with the option to keep the intermediate files, no
\* intermediate artifact is deleted: every scorer output manage_ident has read
\* is still on disk, and the working files of every enrollment task that has
\* ended without an error are still in the working directory.
C11_KeepOptionKeepsFiles ==
    options.keep_intermediate_files =>
        /\ \A j \in ReadByManageIdent :
              IdentFile(Showname(j[1]), clusters[j[1]].gender \o "." \o j[2])
                  \in DOMAIN disk
        /\ \A c \in DOMAIN tasks :
              tasks[c].result = "ok" =>
                  \A i \in 1..Len(Intermediate(tasks[c].show)) :
                      Intermediate(tasks[c].show)[i] \in DOMAIN cwd

---------------------------------------------------------------------------
(* Properties of the review and enrollment stage *)

\* What get_best_speaker returns on the score map of cluster c, which no
\* statement after the aggregation changes.
ResolverReturned(c) == get_best_speaker(clusters[c]).ret

\* interactive_training is being run for cluster c.
InReview(c) == pc = "review" /\ ClusterOrder[k] = c

\* C12: a cluster is under interactive review only in an interactive run in
\* which the resolver returned "unknown" for it; a cluster has an enrollment
\* task only if, in addition, its review returned a name other than "unknown",
\* the name the task works with; a cluster the resolver identified, and every
\* cluster of a non-interactive run, is not under review, has no task and
\* keeps the resolver's name.
C12_ReviewAndEnrollOnlyUnknown ==
    \A c \in DOMAIN clusters :
        /\ InReview(c) =>
              /\ interactive = TRUE
              /\ speakers[c] = "unknown"
              /\ ResolverReturned(c) = "unknown"
        /\ c \in DOMAIN tasks =>
              /\ interactive = TRUE
              /\ ResolverReturned(c) = "unknown"
              /\ speakers[c] # "unknown"
              /\ tasks[c].speaker = speakers[c]
        /\ (c \in DOMAIN speakers
            /\ (interactive = FALSE \/ ResolverReturned(c) # "unknown")) =>
              /\ ~InReview(c)
              /\ c \notin DOMAIN tasks
              /\ speakers[c] = ResolverReturned(c)

\* C12 happens: the run is over, one cluster was named in its review and has
\* its task, another was identified by the resolver and has none.
C12_Witness ==
    /\ pc = "done"
    /\ \E c \in DOMAIN tasks, d \in DOMAIN speakers :
          /\ d \notin DOMAIN tasks
          /\ ResolverReturned(d) \notin {"unknown", None}

\* C13 as stated: every cluster is resolved before the subtitles are
\* relabeled, and the subtitles are relabeled before any interactive review is
\* performed and before any enrollment task is started.
C13_AsStated ==
    /\ relabeled => DOMAIN speakers = DOMAIN clusters
    /\ \A c \in DOMAIN clusters : InReview(c) => relabeled
    /\ tasks # Empty => relabeled

\* C13 amended: the clusters are taken in loop order, each one resolved, then
\* reviewed and given its enrollment task before the next one is resolved;
\* the subtitles are relabeled only once every cluster has been through these
\* steps, and after that the run reviews nothing and starts no task: it only
\* waits for the tasks and ends.
C13_ReviewBeforeRelabel ==
    /\ relabeled =>
          /\ DOMAIN speakers = DOMAIN clusters
          /\ pc \in {"joinenroll", "done"}
    /\ pc \in {"resolve", "review", "merge"} =>
          /\ ~relabeled
          /\ DOMAIN tasks \subseteq {ClusterOrder[i] : i \in 1..(k - 1)}
    /\ pc \in {"review", "merge"} =>
          DOMAIN speakers = {ClusterOrder[i] : i \in 1..k}

\* C13 happens: the subtitles are relabeled while a task started in the
\* review of a cluster is still running.
C13_Witness ==
    /\ relabeled
    /\ pc = "joinenroll"
    /\ \E c \in DOMAIN tasks : tasks[c].alive

---------------------------------------------------------------------------
(* Properties of the job set *)

\* The scoring phase has not listed the database yet.
BeforeListing == pc \in {"listdb", "functions"}

\* The pairs of each cluster with the models listed for its own partition.
OwnPartitionPairs ==
    UNION {{<<c, files_in_db[clusters[c].gender][i]>> :
               i \in 1..Len(files_in_db[clusters[c].gender])} : c \in DOMAIN clusters}

\* C17: the listing of the partitions is taken once, of the database as it is
\* before scheduling, and is not refreshed when enrollment adds models; the
\* jobs started are pairs of a cluster with a model listed for its own
\* partition, each started once (as many Process objects as starts), all of
\* them once scheduling is over; aggregation reads the outputs of exactly
\* these pairs, so that each cluster's score map has the speakers of the
\* models listed for its partition and no other.
C17_OneJobPerOwnPartitionPair ==
    ~BeforeListing =>
        LET pairs == Pairs
            own   == OwnPartitionPairs
            read  == IF pc \in {"sched", "wait", "start", "join"} THEN {}
                     ELSE IF pc \in {"ident", "IOError"}
                          THEN {pairs[i] : i \in 1..(k - 1)}
                          ELSE own
        IN  /\ \A g \in Genders :
                  /\ {files_in_db[g][i] : i \in 1..Len(files_in_db[g])}
                        = {f \in DOMAIN InitialDb[g] : EndsWith(f, ".gmm")}
                  /\ Len(files_in_db[g]) = Cardinality(DOMAIN InitialDb[g] \ {"notes.txt"})
            /\ {pairs[i] : i \in 1..Len(pairs)} = own
            /\ Len(pairs) = Cardinality(own)
            /\ DOMAIN jobs \subseteq own
            /\ pc \in {"sched", "wait", "start"} =>
                  /\ DOMAIN jobs = {pairs[i] : i \in 1..(k - 1)}
                  /\ Cardinality(DOMAIN p) = k - 1
            /\ pc \notin {"sched", "wait", "start"} =>
                  /\ DOMAIN jobs = own
                  /\ Cardinality(DOMAIN p) = Cardinality(own)
            /\ read \subseteq DOMAIN jobs
            /\ \A c \in DOMAIN clusters :
                  DOMAIN clusters[c].speakers =
                      {InitialDb[clusters[c].gender][j[2]].spk :
                          j \in {i \in read : i[1] = c}}

\* C17 happens: a cluster of partition M and one of partition F have been
\* scored against two models and one, and aggregation has read all three.
C17_Witness ==
    /\ pc = "resolve"
    /\ {clusters[c].gender : c \in DOMAIN clusters} = {"M", "F"}
    /\ Cardinality(DOMAIN jobs) = 3
    /\ ReadByManageIdent = DOMAIN jobs

---------------------------------------------------------------------------
(* Properties of concurrent enrollment tasks *)

\* The files the task given show reads and writes in the working directory
\* (build_and_store_gmm and the removals of build_gmm_wrapper).
WorkingFiles(show) ==
    {show \o ext : ext \in {".wav", ".seg", ".mfcc", ".ident.seg", ".init.gmm", ".gmm"}}

\* C19: any two enrollment tasks that are running at the same time work on
\* disjoint sets of working files.
C19_DisjointWorkingFiles ==
    \A c \in DOMAIN tasks : \A d \in DOMAIN tasks \ {c} :
        (tasks[c].alive /\ tasks[d].alive)
        => WorkingFiles(tasks[c].show) \cap WorkingFiles(tasks[d].show) = {}

\* C20: every enrollment task keeps the cluster id, the speaker name and the
\* gender of the cluster it was started for, its working files carry its own
\* cluster's data, and the model it is about to store was trained on the
\* features of that cluster under that name, whatever the orchestrator has
\* reviewed, named or enrolled since.
C20_TaskTrainsItsOwnCluster ==
    \A c \in DOMAIN tasks :
        LET t == tasks[c]
            gmm == t.show \o ".gmm"
        IN  /\ t.cluster = c
            /\ t.speaker = speakers[c]
            /\ t.gender = clusters[c].gender
            /\ (t.alive /\ t.step = "rename" /\ gmm \in DOMAIN cwd) =>
                  /\ cwd[gmm].by = c
                  /\ cwd[gmm].spk = t.speaker

---------------------------------------------------------------------------
(* Properties of the segmentation files *)

\* The sum of int(line[3]) over a list of segments.
RECURSIVE SumDurations(_)
SumDurations(segments) ==
    IF segments = <<>> THEN 0
    ELSE int(Head(segments)[4]) + SumDurations(Tail(segments))

IsData(l) == ~IsHeader(l)

\* C14: once extract_clusters has returned, and after any number of calls of
\* generate_seg_file, the frames of every cluster of the dict equal the sum
\* of the durations of its segments, whether its id had one header in the
\* file or several, and the file generate_seg_file wrote for a cluster holds
\* segments of the same total.
C14_FramesIsSumOfDurations ==
    (sg.pass = 1 /\ sg.pc = "returned") =>
        /\ \A c \in DOMAIN sg.clusters :
              sg.clusters[c].frames = SumDurations(sg.clusters[c].segments)
        /\ \A c \in DOMAIN sg.files :
              SumDurations(SelectSeq(sg.files[c], IsData)) = sg.clusters[c].frames

\* C14 happens: the file had a header of a cluster, a segment, and a second
\* header of the same cluster, and generate_seg_file has run for the cluster,
\* which has no segment and no frame.
C14_Witness ==
    /\ sg.pass = 1
    /\ sg.pc = "returned"
    /\ Len(sg.input) = 3
    /\ \E c \in DOMAIN sg.files :
          /\ sg.input[1] = HeaderLine(c)
          /\ IsData(sg.input[2])
          /\ sg.input[3] = HeaderLine(c)
          /\ sg.clusters[c].frames = 0

\* The cluster ids of the headers of a file.
HeaderIds(lines) ==
    {SplitColon(lines[i][2])[2] : i \in {j \in 1..Len(lines) : IsHeader(lines[j])}}

\* C15: when a file that holds one cluster has been relabeled by ident_seg
\* with a name and the result parsed by extract_clusters, the parse has
\* returned a dict whose one cluster is under that name and has the segments
\* of the file, same count, same order, every field the same but the label,
\* which is the name, and the frames of their durations.
C15_RelabelRoundTrip ==
    (sg.pass = 2 /\ sg.pc # "extract" /\ Cardinality(HeaderIds(sg.src)) = 1) =>
        /\ sg.pc = "returned"
        /\ DOMAIN sg.clusters = {sg.name}
        /\ LET data == SelectSeq(sg.src, IsData)
               self == sg.clusters[sg.name]
           IN  /\ Len(self.segments) = Len(data)
               /\ \A i \in 1..Len(data) : \A j \in 1..8 :
                     self.segments[i][j] = IF j = 8 THEN sg.name ELSE data[i][j]
               /\ self.frames = SumDurations(data)

---------------------------------------------------------------------------
(* Properties of interactive_training *)

\* C18: interactive_training has returned only with "unknown" right after the
\* answer 2 (Skip) at the menu, or with a name right after a yes to the
\* confirmation that showed that very name, the name typed last or "unknown"
\* if it was empty; until then nothing is returned; right after a no or a
\* replay the call is back at the name prompt, right after an answer that
\* is none of yes, no, replay it is at the confirmation of the same name
\* again; the call is always at one of its three prompts or has returned.
C18_ReviewEndsOnlyAccepted ==
    /\ it.pc \in {"menu", "name", "confirm", "returned"}
    /\ it.pc = "returned" =>
          \/ /\ it.last = [at |-> "menu", answer |-> "2"]
             /\ it.ret = "unknown"
          \/ /\ it.last.at = "confirm"
             /\ it.last.answer \in {"y", "ye", "yes"}
             /\ it.ret = it.shown
             /\ it.shown = IF it.typed = "" THEN "unknown" ELSE it.typed
    /\ it.pc # "returned" => it.ret = None
    /\ (it.last.at = "confirm"
        /\ it.last.answer \in {"n", "no", "nop", "nope", "r", "replay"}) =>
          it.pc = "name"
    /\ (it.last.at = "confirm"
        /\ it.last.answer \notin {"y", "ye", "yes", "n", "no", "nop", "nope",
                                  "r", "replay"}) =>
          /\ it.pc = "confirm"
          /\ it.name = it.shown

\* C18 happens: the call has returned "unknown" on a yes to an empty name,
\* after at least one earlier confirmation that was not accepted.
C18_Witness ==
    /\ it.pc = "returned"
    /\ it.last.at = "confirm"
    /\ it.typed = ""
    /\ it.ret = "unknown"
    /\ it.asked >= 5

---------------------------------------------------------------------------
(* Properties of speaker model creation *)

\* C16: when a run in speaker model creation mode has ended with exit(0),
\* some gender partition of the database holds a model file trained in this
\* run for the speaker given, one more .gmm for the listing of a later
\* identify run.
C16_EnrollmentModeStoresModel ==
    bg.pc = "exit0" =>
        \E g \in Genders : \E f \in DOMAIN db[g] :
            /\ EndsWith(f, ".gmm")
            /\ f \notin DOMAIN InitialDb[g]
            /\ db[g][f].spk = bg.speaker

\* The data lines a file holds for cluster c after the last header of c, in
\* file order: the segments the file gives the cluster.
SegmentsInFile(lines, c) ==
    LET h == CHOOSE i \in 1..Len(lines) :
                 /\ lines[i] = HeaderLine(c)
                 /\ \A j \in (i + 1)..Len(lines) : lines[j] # HeaderLine(c)
        OfCluster(l) == IsData(l) /\ l[8] = c
    IN  SelectSeq(SubSeq(lines, h + 1, Len(lines)), OfCluster)

\* C22: after generate_seg_file has run for a cluster, its segments are as
\* many as the file read gave it, in the same order and with every field but
\* the start unchanged, the durations among them; the first one starts at 0
\* and each later one at the sum of the durations of those before it; the
\* file written holds the header and these segments, starts included.
C22_SegmentsBackToBack ==
    (sg.pass = 1 /\ sg.pc = "returned") =>
        \A c \in DOMAIN sg.files :
            LET segments == sg.clusters[c].segments
                read == SegmentsInFile(sg.input, c)
                written == sg.files[c]
            IN  /\ Len(segments) = Len(read)
                /\ Len(written) = Len(read) + 1
                /\ written[1] = HeaderLine(c)
                /\ \A i \in 1..Len(read) :
                      /\ \A j \in (1..8) \ {3} :
                            /\ segments[i][j] = read[i][j]
                            /\ written[i + 1][j] = read[i][j]
                      /\ segments[i][3] = SumDurations(SubSeq(read, 1, i - 1))
                      /\ written[i + 1][3] = ToString(segments[i][3])

\* C22 happens: generate_seg_file has run for a cluster of two segments
\* whose starts in the file read were not back to back from 0.
C22_Witness ==
    /\ sg.pass = 1
    /\ sg.pc = "returned"
    /\ \E c \in DOMAIN sg.files :
          LET read == SegmentsInFile(sg.input, c)
          IN  /\ Len(read) = 2
              /\ read[1][3] = "300"
              /\ read[2][3] = "0"
              /\ sg.clusters[c].segments[2][3] = int(read[1][4])

---------------------------------------------------------------------------
(* Properties of the scheduler's progress *)

\* The join loop is passed with a job started for every pair and every job
\* ended.
BarrierPassed ==
    /\ pc = "ident"
    /\ DOMAIN jobs = OwnPartitionPairs
    /\ \A j \in DOMAIN jobs : ~jobs[j].alive

\* C21: given that every started scoring job ends, every run reaches the
\* state after the join loop, with a job started for every pair of a cluster
\* and a model of its partition: the loop neither waits forever nor skips a
\* pair.
C21_SchedulerProgress == <>BarrierPassed

\* C21 happens: the join loop is passed in a run with the largest number of
\* cpus and more pairs than cpus.
C21_Witness ==
    /\ BarrierPassed
    /\ Cardinality(DOMAIN jobs) > cpus
    /\ cpus = MaxCpus

====
